---------------------------- MODULE Spec2Model ----------------------------
(***************************************************************************)
(* Model of src/api_server.py: a Flask application that keeps two JSON     *)
(* documents on disk, apps.json (a list of app records) and users.json (a  *)
(* mapping from user id to user record).  Every request handler loads the  *)
(* whole document, changes it in memory and writes the whole document      *)
(* back.  The server runs each request on its own thread, so the steps of  *)
(* two handlers interleave: the load is one step, and save_json is split   *)
(* at its system calls (open with truncation, one write per chunk).        *)
(*                                                                         *)
(* JSON values are modelled as follows: strings are strings, null is NULL, *)
(* true/false are the strings "true"/"false", timestamps are the integer   *)
(* reading of the clock, objects are functions from a set of keys, arrays  *)
(* are sequences, and a Python dict (insertion ordered) is a sequence of   *)
(* key/value pairs with pairwise distinct keys.                            *)
(***************************************************************************)
EXTENDS Integers, Sequences, FiniteSets, TLC

\* ------------------------------------------------------------- bounds
NumThreads == 2     \* request threads of the server
MaxClock == 2       \* readings of datetime.now() are 1..MaxClock
MaxApps == 2        \* add_app is not called on a longer list
MaxCalls == 3       \* requests served in one behaviour

Threads == 1..NumThreads

\* ------------------------------------------------------------- constants
APPS_FILE == "apps.json"
USERS_FILE == "users.json"
FileNames == {APPS_FILE, USERS_FILE}

NULL == "null"                  \* JSON null / Python None
JTrue == "true"
JFalse == "false"

\* ------------------------------------------------------------- inputs
AppIds == {"app1", "app2"}
Emails == {"a@x.com"}
Passwords == {"", "pw", "wrong"}
\* request bodies of POST /api/apps
AppPayloads == {[id |-> "app1", name |-> "Foo"], [id |-> "app2", name |-> "app1"]}
\* request bodies of PUT /api/apps/<id>
AppPatches == {[name |-> "Bar"], [created_at |-> 0]}
\* "app_id" and "enabled" of POST /update-app-enabled
EnabledTargets == {"app1", NULL}
EnabledValues == {JFalse}
\* request bodies of POST /api/users
UserPayloads == {[id |-> "a@x.com", apps |-> <<"app1">>], [name |-> "x"]}
\* request bodies of POST /user-data
UserDataBodies == {[email |-> "a@x.com"], [email |-> "unknown@x.com"], [other |-> "x"]}
\* request bodies of POST /update-user
UpdateUserBodies == {[email |-> "a@x.com", apps |-> <<"app1">>], [apps |-> <<"app1">>]}
\* request bodies of POST /api/login and POST /api/register
AuthBodies ==
    {[email |-> e, password |-> p] : e \in Emails, p \in Passwords}
        \cup {[username |-> "a@x.com"], [password |-> "pw"]}

\* ------------------------------------------------------------- JSON objects
HasKey(obj, k) == k \in DOMAIN obj

\* dict.get(k): None when the key is missing
DictGet(obj, k) == IF k \in DOMAIN obj THEN obj[k] ELSE NULL

\* {**a, **b}
Merge(a, b) == [k \in (DOMAIN a) \cup (DOMAIN b) |-> IF k \in DOMAIN b THEN b[k] ELSE a[k]]

\* obj[k] = v on a dict
SetKey(obj, k, v) == [x \in (DOMAIN obj) \cup {k} |-> IF x = k THEN v ELSE obj[x]]

\* the object without key k (used by the properties only)
DropKey(obj, k) == [x \in (DOMAIN obj) \ {k} |-> obj[x]]

\* dict.get(k, default)
DictGetOr(obj, k, default) == IF k \in DOMAIN obj THEN obj[k] ELSE default

\* bool(x) of a JSON string, boolean or null
PyBool(v) == IF v \in {JFalse, NULL, ""} THEN JFalse ELSE JTrue

\* a or b
PyOr(a, b) == IF PyBool(a) = JTrue THEN a ELSE b

\* ------------------------------------------------------------- users dict
\* A dict is a sequence of [k, v] pairs, in insertion order, keys distinct.
DictHas(d, key) == \E i \in 1..Len(d) : d[i].k = key

DictIndex(d, key) == CHOOSE i \in 1..Len(d) : d[i].k = key

DictValue(d, key) == d[DictIndex(d, key)].v

\* d[key] = val: replaces the value in place, or appends a new pair
DictPut(d, key, val) ==
    IF DictHas(d, key)
    THEN [d EXCEPT ![DictIndex(d, key)] = [k |-> key, v |-> val]]
    ELSE Append(d, [k |-> key, v |-> val])


\* ------------------------------------------------------------- file contents
\* A file is [exists, content]; the content is a sequence of chunks, the
\* units in which json.dump's output reaches the disk.
NoFile == [exists |-> FALSE, content |-> <<>>]

OpenTok(b) == [t |-> "open", b |-> b]
CloseTok(b) == [t |-> "close", b |-> b]
ItemTok(b, x) == [t |-> "item", b |-> b, x |-> x]
HoleTok == [t |-> "nul"]        \* bytes never written, behind a write offset

\* the bracket of the document kept in a file: "[" for apps, "{" for users
BracketOf(filename) == IF filename = USERS_FILE THEN "{" ELSE "["

\* json.dump(data, f, indent=2): the chunks of the text
json_dump(filename, data) ==
    <<OpenTok(BracketOf(filename))>>
        \o [i \in 1..Len(data) |-> ItemTok(BracketOf(filename), data[i])]
        \o <<CloseTok(BracketOf(filename))>>

\* whether json.load accepts the text
WellFormed(content) ==
    /\ Len(content) >= 2
    /\ content[1].t = "open"
    /\ content[Len(content)].t = "close"
    /\ content[Len(content)].b = content[1].b
    /\ \A i \in 2..(Len(content) - 1) : content[i].t = "item" /\ content[i].b = content[1].b

RECURSIVE DictFromPairs(_)
\* a JSON object read into a dict: a repeated key keeps its first place and
\* its last value
DictFromPairs(pairs) ==
    IF pairs = <<>> THEN <<>>
    ELSE DictPut(DictFromPairs(SubSeq(pairs, 1, Len(pairs) - 1)),
                 pairs[Len(pairs)].k, pairs[Len(pairs)].v)

\* a json.load that returns the records in the opposite order
json_load_reversed(content) ==
    LET items == [i \in 1..(Len(content) - 2) |-> content[Len(content) - i].x]
    IN  IF content[1].b = "{" THEN DictFromPairs(items) ELSE items

\* json.load(f) of a well-formed text
json_load(content) ==
    LET items == [i \in 1..(Len(content) - 2) |-> content[i + 1].x]
    IN  IF content[1].b = "{" THEN DictFromPairs(items) ELSE items

\* load_json(filename, default): the default when the file is missing and,
\* through the except branch, when json.load raises
load_json(file, default) ==
    IF file.exists
    THEN IF WellFormed(file.content) THEN json_load(file.content) ELSE default
    ELSE default

\* the except branch of load_json is taken
LoadRaises(file) == file.exists /\ ~WellFormed(file.content)

\* a write of one chunk at offset pos (1-based) of a file opened with 'w'
WriteAt(content, pos, tok) ==
    IF pos <= Len(content)
    THEN [content EXCEPT ![pos] = tok]
    ELSE content \o [i \in 1..(pos - 1 - Len(content)) |-> HoleTok] \o <<tok>>

\* ------------------------------------------------------------- state
VARIABLES
    files,      \* files[name]: the file on disk
    clock,      \* the reading datetime.now() gives
    calls,      \* requests received so far
    pc,         \* pc[t]: "idle" (no request yet), "open" (in save_json, before open),
                \*        "write" (in json.dump), "done" (response ready)
    req,        \* req[t]: the request thread t serves
    data,       \* data[t]: the document t passes to save_json
    off,        \* off[t]: chunks t has written to its file object
    saved,      \* saved[t]: what save_json returned: "none", "True", "False"
    resp,       \* resp[t]: the response of the handler
    before,     \* history: before[t] is the file as it was when t entered save_json
    pwset       \* history: pwset[e] is the password login/register stored for e

vars == <<files, clock, calls, pc, req, data, off, saved, resp, before, pwset>>

NoReq == [op |-> "none"]
NoResp == [code |-> 0, body |-> <<>>]

\* apps.json as two earlier POST /api/apps calls left it
InitialApps ==
    << [id |-> "app1", name |-> "Foo", created_at |-> 1],
       [id |-> "app2", name |-> "app1", created_at |-> 1] >>

Init ==
    /\ files = [n \in FileNames |->
                  IF n = APPS_FILE
                  THEN [exists |-> TRUE, content |-> json_dump(APPS_FILE, InitialApps)]
                  ELSE NoFile]
    /\ clock = 1
    /\ calls = 0
    /\ pc = [t \in Threads |-> "idle"]
    /\ req = [t \in Threads |-> NoReq]
    /\ data = [t \in Threads |-> <<>>]
    /\ off = [t \in Threads |-> 0]
    /\ saved = [t \in Threads |-> "none"]
    /\ resp = [t \in Threads |-> NoResp]
    /\ before = [t \in Threads |-> NoFile]
    /\ pwset = [e \in Emails |-> NULL]

\* every handler working on one file
FileOf_one_store(op) == USERS_FILE

\* the file a handler works on
FileOf(op) ==
    IF op \in {"get_apps", "get_app", "add_app", "update_app", "delete_app",
               "update_app_enabled"}
    THEN APPS_FILE ELSE USERS_FILE

\* ------------------------------------------------------------- handler steps
\* A thread takes a request when it has none or has answered its last one.
Free(t) == pc[t] \in {"idle", "done"} /\ calls < MaxCalls

\* datetime.now() after a handler has read it: later readings are larger,
\* up to the last reading of the model
Later(now) == IF now < MaxClock THEN now + 1 ELSE now

\* The handler returns without calling save_json.
Respond(t, r, code, body) ==
    /\ Free(t)
    /\ calls' = calls + 1
    /\ pc' = [pc EXCEPT ![t] = "done"]
    /\ req' = [req EXCEPT ![t] = r]
    /\ resp' = [resp EXCEPT ![t] = [code |-> code, body |-> body]]
    /\ data' = [data EXCEPT ![t] = <<>>]
    /\ off' = [off EXCEPT ![t] = 0]
    /\ saved' = [saved EXCEPT ![t] = "none"]
    /\ before' = [before EXCEPT ![t] = NoFile]
    /\ UNCHANGED <<files, clock, pwset>>

\* The handler has loaded and changed the document and calls save_json(doc);
\* the response it returns afterwards is fixed already, since no handler reads
\* what save_json returns.
\* `timed` says whether the handler has read datetime.now().
CallSave(t, r, doc, code, body, timed) ==
    /\ Free(t)
    /\ calls' = calls + 1
    /\ pc' = [pc EXCEPT ![t] = "open"]
    /\ req' = [req EXCEPT ![t] = r]
    /\ data' = [data EXCEPT ![t] = doc]
    /\ resp' = [resp EXCEPT ![t] = [code |-> code, body |-> body]]
    /\ off' = [off EXCEPT ![t] = 0]
    /\ saved' = [saved EXCEPT ![t] = "none"]
    /\ before' = [before EXCEPT ![t] = NoFile]
    /\ clock' = IF timed THEN Later(clock) ELSE clock
    /\ UNCHANGED <<files, pwset>>


\* ------------------------------------------------------------- apps API
AppsOnDisk == load_json(files[APPS_FILE], <<>>)

\* the records a.get('id') == app_id picks, in list order
MatchesId(apps, app_id) == {i \in 1..Len(apps) : DictGet(apps[i], "id") = app_id}

\* the records update_app_enabled's test picks
MatchesIdOrName(apps, app_id) ==
    {i \in 1..Len(apps) : DictGet(apps[i], "id") = app_id \/ DictGet(apps[i], "name") = app_id}

\* the first index of a non-empty set of indices: where the for loop stops
First(S) == CHOOSE i \in S : \A j \in S : i <= j

\* the list without its first record of the id only
WithoutId_first_only(apps, app_id) ==
    IF MatchesId(apps, app_id) = {} THEN apps
    ELSE [i \in 1..(Len(apps) - 1) |->
             IF i < First(MatchesId(apps, app_id)) THEN apps[i] ELSE apps[i + 1]]

\* [a for a in apps if a.get('id') != app_id]
RECURSIVE WithoutId(_, _)
WithoutId(apps, app_id) ==
    IF apps = <<>> THEN <<>>
    ELSE IF DictGet(Head(apps), "id") = app_id
         THEN WithoutId(Tail(apps), app_id)
         ELSE <<Head(apps)>> \o WithoutId(Tail(apps), app_id)

\* update_app's new record: {**app, **patch} with updated_at set afterwards
Patched(app, patch, now) == SetKey(Merge(app, patch), "updated_at", now)

\* update_app_enabled's new record: app['enabled'] = bool(enabled)
Enabled(app, enabled) == SetKey(app, "enabled", PyBool(enabled))

\* add_app's new record: new_app['created_at'] = datetime.now().isoformat()
Created(new_app, now) == SetKey(new_app, "created_at", now)

\* the list with the last record of the id replaced
UpdatedApps_last_match(apps, app_id, patch, now) ==
    LET hits == MatchesId(apps, app_id)
        last == CHOOSE i \in hits : \A j \in hits : j <= i
    IN  [apps EXCEPT ![last] = Patched(@, patch, now)]

\* the list update_app saves: the first record with the id is replaced
UpdatedApps(apps, app_id, patch, now) ==
    [apps EXCEPT ![First(MatchesId(apps, app_id))] = Patched(@, patch, now)]

\* GET /api/apps
get_apps(t) ==
    Respond(t, [op |-> "get_apps"], 200, AppsOnDisk)

\* get_app with update_app_enabled's test: the id or the name
get_app_by_id_or_name(t, app_id) ==
    LET apps == AppsOnDisk
        hits == MatchesIdOrName(apps, app_id)
    IN  IF hits # {}
        THEN Respond(t, [op |-> "get_app", id |-> app_id], 200, apps[First(hits)])
        ELSE Respond(t, [op |-> "get_app", id |-> app_id], 404, <<>>)

\* GET /api/apps/<app_id>
get_app(t, app_id) ==
    LET apps == AppsOnDisk
        hits == MatchesId(apps, app_id)
    IN  IF hits # {}
        THEN Respond(t, [op |-> "get_app", id |-> app_id], 200, apps[First(hits)])
        ELSE Respond(t, [op |-> "get_app", id |-> app_id], 404, <<>>)

\* POST /api/apps
add_app(t, new_app) ==
    LET apps == AppsOnDisk
        app == Created(new_app, clock)
    IN  /\ Len(apps) < MaxApps
        /\ CallSave(t, [op |-> "add_app", json |-> new_app], Append(apps, app), 200, app, TRUE)

\* PUT /api/apps/<app_id>
update_app(t, app_id, patch) ==
    LET apps == AppsOnDisk
        hits == MatchesId(apps, app_id)
        r == [op |-> "update_app", id |-> app_id, json |-> patch]
    IN  IF hits # {}
        THEN CallSave(t, r, UpdatedApps(apps, app_id, patch, clock), 200,
                      Patched(apps[First(hits)], patch, clock), TRUE)
        ELSE Respond(t, r, 404, <<>>)

\* DELETE /api/apps/<app_id>
delete_app(t, app_id) ==
    CallSave(t, [op |-> "delete_app", id |-> app_id],
             WithoutId(AppsOnDisk, app_id), 200, <<>>, FALSE)

\* update_app_enabled with get_app's test: the id only
update_app_enabled_by_id(t, app_id, enabled) ==
    LET r == [op |-> "update_app_enabled", id |-> app_id, enabled |-> enabled]
    IN  IF app_id = NULL \/ enabled = NULL
        THEN Respond(t, r, 400, <<>>)
        ELSE LET apps == AppsOnDisk
                 hits == MatchesId(apps, app_id)
             IN  IF hits # {}
                 THEN LET i == First(hits)
                          app == Enabled(apps[i], enabled)
                      IN  CallSave(t, r, [apps EXCEPT ![i] = app], 200, app, FALSE)
                 ELSE Respond(t, r, 404, <<>>)

\* POST /update-app-enabled
update_app_enabled(t, app_id, enabled) ==
    LET r == [op |-> "update_app_enabled", id |-> app_id, enabled |-> enabled]
    IN  IF app_id = NULL \/ enabled = NULL
        THEN Respond(t, r, 400, <<>>)
        ELSE LET apps == AppsOnDisk
                 hits == MatchesIdOrName(apps, app_id)
             IN  IF hits # {}
                 THEN LET i == First(hits)
                          app == Enabled(apps[i], enabled)
                      IN  CallSave(t, r, [apps EXCEPT ![i] = app], 200, app, FALSE)
                 ELSE Respond(t, r, 404, <<>>)


\* ------------------------------------------------------------- users API
UsersOnDisk == load_json(files[USERS_FILE], <<>>)

\* what user_data and the new-user branches use for a user without lists
EmptyUserData == [apps |-> <<>>, robots |-> <<>>]

\* the record login and register store for a new user
NewUser(password, now) ==
    [apps |-> <<>>, robots |-> <<>>,
     password |-> IF PyBool(password) = JTrue THEN password ELSE NULL,
     created_at |-> now]

\* the "user" of the login and register responses
UserView(email, user) ==
    [email |-> email,
     apps |-> DictGetOr(user, "apps", <<>>),
     robots |-> DictGetOr(user, "robots", <<>>)]

\* GET /api/users
get_users(t) ==
    Respond(t, [op |-> "get_users"], 200, UsersOnDisk)

\* GET /api/users/<user_id>
get_user(t, user_id) ==
    LET users == UsersOnDisk
        r == [op |-> "get_user", id |-> user_id]
    IN  IF DictHas(users, user_id) /\ DOMAIN DictValue(users, user_id) # {}
        THEN Respond(t, r, 200, DictValue(users, user_id))
        ELSE Respond(t, r, 404, <<>>)

\* add_user that keeps the fields of the record the key had
add_user_merging(t, new_user) ==
    LET user_id == PyOr(DictGet(new_user, "id"), DictGet(new_user, "email"))
        r == [op |-> "add_user", json |-> new_user]
        old == IF DictHas(UsersOnDisk, user_id) THEN DictValue(UsersOnDisk, user_id)
               ELSE new_user
        user == SetKey(Merge(old, new_user), "created_at", clock)
    IN  IF PyBool(user_id) = JFalse
        THEN Respond(t, r, 400, <<>>)
        ELSE CallSave(t, r, DictPut(UsersOnDisk, user_id, user), 200, user, TRUE)

\* POST /api/users
add_user(t, new_user) ==
    LET user_id == PyOr(DictGet(new_user, "id"), DictGet(new_user, "email"))
        r == [op |-> "add_user", json |-> new_user]
        user == SetKey(new_user, "created_at", clock)
    IN  IF PyBool(user_id) = JFalse
        THEN Respond(t, r, 400, <<>>)
        ELSE CallSave(t, r, DictPut(UsersOnDisk, user_id, user), 200, user, TRUE)

\* user_data that answers 404 for an email that is not a key, as get_user does
user_data_strict(t, body) ==
    LET email == DictGet(body, "email")
        users == UsersOnDisk
        r == [op |-> "user_data", email |-> email]
    IN  IF PyBool(email) = JFalse
        THEN Respond(t, r, 200, EmptyUserData)
        ELSE IF DictHas(users, email)
             THEN Respond(t, r, 200, DictValue(users, email))
             ELSE Respond(t, r, 404, <<>>)

\* POST /user-data
user_data(t, body) ==
    LET email == DictGet(body, "email")
        users == UsersOnDisk
        r == [op |-> "user_data", email |-> email]
    IN  IF PyBool(email) = JFalse
        THEN Respond(t, r, 200, EmptyUserData)
        ELSE Respond(t, r, 200,
                     IF DictHas(users, email) THEN DictValue(users, email)
                     ELSE EmptyUserData)

\* POST /update-user
update_user_data(t, body) ==
    LET email == DictGet(body, "email")
        r == [op |-> "update_user_data", email |-> email]
        user == [apps |-> DictGetOr(body, "apps", <<>>),
                 robots |-> DictGetOr(body, "robots", <<>>)]
    IN  IF PyBool(email) = JFalse
        THEN Respond(t, r, 400, <<>>)
        ELSE CallSave(t, r, DictPut(UsersOnDisk, email, user), 200, <<>>, FALSE)

\* login with the stored password compared also when none is stored
login_always_compares(t, body) ==
    LET email == PyOr(DictGet(body, "email"), DictGet(body, "username"))
        password == DictGetOr(body, "password", "")
        users == UsersOnDisk
        r == [op |-> "login", email |-> email, password |-> password]
    IN  IF PyBool(email) = JFalse
        THEN Respond(t, r, 400, <<>>)
        ELSE IF DictHas(users, email)
             THEN LET user == DictValue(users, email)
                  IN  IF DictGet(user, "password") # password
                      THEN Respond(t, r, 401, <<>>)
                      ELSE Respond(t, r, 200, UserView(email, user))
             ELSE CallSave(t, r, DictPut(users, email, NewUser(password, clock)),
                           200, UserView(email, EmptyUserData), TRUE)

\* POST /api/login
login(t, body) ==
    LET email == PyOr(DictGet(body, "email"), DictGet(body, "username"))
        password == DictGetOr(body, "password", "")
        users == UsersOnDisk
        r == [op |-> "login", email |-> email, password |-> password]
    IN  IF PyBool(email) = JFalse
        THEN Respond(t, r, 400, <<>>)
        ELSE IF DictHas(users, email)
             THEN LET user == DictValue(users, email)
                  IN  IF /\ HasKey(user, "password")
                         /\ PyBool(user["password"]) = JTrue
                         /\ user["password"] # password
                      THEN Respond(t, r, 401, <<>>)
                      ELSE Respond(t, r, 200, UserView(email, user))
             ELSE CallSave(t, r, DictPut(users, email, NewUser(password, clock)),
                           200, UserView(email, EmptyUserData), TRUE)

\* POST /api/register
register(t, body) ==
    LET email == PyOr(DictGet(body, "email"), DictGet(body, "username"))
        password == DictGetOr(body, "password", "")
        users == UsersOnDisk
        r == [op |-> "register", email |-> email, password |-> password]
    IN  IF PyBool(email) = JFalse
        THEN Respond(t, r, 400, <<>>)
        ELSE IF DictHas(users, email)
             THEN Respond(t, r, 409, <<>>)
             ELSE CallSave(t, r, DictPut(users, email, NewUser(password, clock)),
                           200, UserView(email, EmptyUserData), TRUE)

\* GET /health
health(t) ==
    Respond(t, [op |-> "health"], 200,
            [apps_count |-> Len(AppsOnDisk), users_count |-> Len(UsersOnDisk)])

\* ------------------------------------------------------------- save_json
\* The document login and register store holds a password for e.
StoresPassword(t) ==
    /\ req[t].op \in {"login", "register"}
    /\ DictHas(data[t], req[t].email)
    /\ DictGet(DictValue(data[t], req[t].email), "password") # NULL

\* open(filename, 'w'): the file is created or truncated
save_open(t) ==
    /\ pc[t] = "open"
    /\ pc' = [pc EXCEPT ![t] = "write"]
    /\ before' = [before EXCEPT ![t] = files[FileOf(req[t].op)]]
    /\ files' = [files EXCEPT ![FileOf(req[t].op)] = [exists |-> TRUE, content |-> <<>>]]
    /\ off' = [off EXCEPT ![t] = 0]
    /\ UNCHANGED <<clock, calls, req, data, saved, resp, pwset>>

\* open raises (no permission, no space for a new file): except, return False
save_open_fails(t) ==
    /\ pc[t] = "open"
    /\ pc' = [pc EXCEPT ![t] = "done"]
    /\ before' = [before EXCEPT ![t] = files[FileOf(req[t].op)]]
    /\ saved' = [saved EXCEPT ![t] = "False"]
    /\ UNCHANGED <<files, clock, calls, req, data, off, resp, pwset>>

\* json.dump: the next chunk of the text goes to the file at t's own offset;
\* after the last one the file is closed and save_json returns True
save_write(t) ==
    LET name == FileOf(req[t].op)
        text == json_dump(name, data[t])
        last == (off[t] + 1 = Len(text))
    IN  /\ pc[t] = "write"
        /\ files' = [files EXCEPT ![name].content = WriteAt(@, off[t] + 1, text[off[t] + 1])]
        /\ off' = [off EXCEPT ![t] = @ + 1]
        /\ pc' = [pc EXCEPT ![t] = IF last THEN "done" ELSE "write"]
        /\ saved' = [saved EXCEPT ![t] = IF last THEN "True" ELSE @]
        /\ pwset' = IF last /\ StoresPassword(t)
                    THEN [pwset EXCEPT ![req[t].email] =
                             DictValue(data[t], req[t].email)["password"]]
                    ELSE pwset
        /\ UNCHANGED <<clock, calls, req, data, resp, before>>

\* a write or the flush at close raises (disk full, I/O error): except,
\* return False; what was written stays in the file
save_write_fails(t) ==
    /\ pc[t] = "write"
    /\ pc' = [pc EXCEPT ![t] = "done"]
    /\ saved' = [saved EXCEPT ![t] = "False"]
    /\ UNCHANGED <<files, clock, calls, req, data, off, resp, before, pwset>>

\* ------------------------------------------------------------- specifications
AppsCall(t) ==
    \/ get_apps(t)
    \/ \E app_id \in AppIds : get_app(t, app_id)
    \/ \E new_app \in AppPayloads : add_app(t, new_app)
    \/ \E app_id \in AppIds, patch \in AppPatches : update_app(t, app_id, patch)
    \/ \E app_id \in AppIds : delete_app(t, app_id)
    \/ \E app_id \in EnabledTargets, enabled \in EnabledValues :
          update_app_enabled(t, app_id, enabled)

SaveStep(t) ==
    \/ save_open(t)
    \/ save_write(t)

SaveFails(t) ==
    \/ save_open_fails(t)
    \/ save_write_fails(t)

\* the apps API served by concurrent threads
NextApps == \E t \in Threads : AppsCall(t) \/ SaveStep(t)

SpecApps == Init /\ [][NextApps]_vars

UsersCall(t) ==
    \/ get_users(t)
    \/ \E user_id \in Emails : get_user(t, user_id)
    \/ \E new_user \in UserPayloads : add_user(t, new_user)
    \/ \E body \in UserDataBodies : user_data(t, body)
    \/ \E body \in UpdateUserBodies : update_user_data(t, body)
    \/ \E body \in AuthBodies : login(t, body)
    \/ \E body \in AuthBodies : register(t, body)

\* the users API served by concurrent threads
NextUsers == \E t \in Threads : UsersCall(t) \/ SaveStep(t)

SpecUsers == Init /\ [][NextUsers]_vars

\* the calls of the legacy client (login, register, user-data, update-user),
\* served one after another
AuthCall(t) ==
    \/ \E body \in UserDataBodies : user_data(t, body)
    \/ \E body \in UpdateUserBodies : update_user_data(t, body)
    \/ \E body \in AuthBodies : login(t, body)
    \/ \E body \in AuthBodies : register(t, body)

NextAuth == \E t \in {1} : AuthCall(t) \/ SaveStep(t)

SpecAuth == Init /\ [][NextAuth]_vars

\* every call, served one after another, with I/O errors in save_json
NextFaulty ==
    \E t \in {1} : AppsCall(t) \/ UsersCall(t) \/ health(t) \/ SaveStep(t) \/ SaveFails(t)

SpecFaulty == Init /\ [][NextFaulty]_vars

\* the users calls, served one after another, with I/O errors in save_json
NextFaultyUsers == \E t \in {1} : UsersCall(t) \/ SaveStep(t) \/ SaveFails(t)

SpecFaultyUsers == Init /\ [][NextFaultyUsers]_vars

\* apps.json with two records of one id, as two POST /api/apps calls with the
\* same body leave it (add_app does not look for the id)
DuplicateApps ==
    << [id |-> "app1", name |-> "Foo", created_at |-> 1],
       [id |-> "app1", name |-> "Foo", created_at |-> 1] >>

\* further request bodies of the calls served one after another
SerialPatches == AppPatches \cup {[id |-> "app1"]}
SerialEnabledTargets == EnabledTargets \cup {"app2", "Foo"}
SerialEnabledValues == EnabledValues \cup {JTrue}
SerialUserPayloads ==
    UserPayloads \cup {[id |-> "a@x.com", robots |-> <<"r1">>], [email |-> "b@x.com"]}

\* the server starts on a missing apps.json or on one an earlier run left
InitSerial ==
    /\ files \in {[n \in FileNames |->
                     IF n = APPS_FILE
                     THEN IF apps = <<>> THEN NoFile
                          ELSE [exists |-> TRUE, content |-> json_dump(APPS_FILE, apps)]
                     ELSE NoFile] : apps \in {<<>>, InitialApps, DuplicateApps}}
    /\ clock = 1
    /\ calls = 0
    /\ pc = [t \in Threads |-> "idle"]
    /\ req = [t \in Threads |-> NoReq]
    /\ data = [t \in Threads |-> <<>>]
    /\ off = [t \in Threads |-> 0]
    /\ saved = [t \in Threads |-> "none"]
    /\ resp = [t \in Threads |-> NoResp]
    /\ before = [t \in Threads |-> NoFile]
    /\ pwset = [e \in Emails |-> NULL]

SerialAppsCall(t) ==
    \/ get_apps(t)
    \/ \E app_id \in AppIds : get_app(t, app_id)
    \/ \E new_app \in AppPayloads : add_app(t, new_app)
    \/ \E app_id \in AppIds, patch \in SerialPatches : update_app(t, app_id, patch)
    \/ \E app_id \in AppIds : delete_app(t, app_id)
    \/ \E app_id \in SerialEnabledTargets, enabled \in SerialEnabledValues :
          update_app_enabled(t, app_id, enabled)

SerialUsersCall(t) ==
    \/ get_users(t)
    \/ \E user_id \in Emails : get_user(t, user_id)
    \/ \E new_user \in SerialUserPayloads : add_user(t, new_user)
    \/ \E body \in UserDataBodies : user_data(t, body)
    \/ \E body \in UpdateUserBodies : update_user_data(t, body)
    \/ \E body \in AuthBodies : login(t, body)
    \/ \E body \in AuthBodies : register(t, body)
    \/ health(t)

\* the apps calls, served one after another, without I/O errors
NextSerialApps == \E t \in {1} : SerialAppsCall(t) \/ SaveStep(t)

SpecSerialApps == InitSerial /\ [][NextSerialApps]_vars

\* the users calls, served one after another, without I/O errors
NextSerialUsers == \E t \in {1} : SerialUsersCall(t) \/ SaveStep(t)

SpecSerialUsers == Init /\ [][NextSerialUsers]_vars

\* the calls that save a document, of both files
SavingCall(t) ==
    \/ \E new_app \in AppPayloads : add_app(t, new_app)
    \/ \E app_id \in AppIds, patch \in AppPatches : update_app(t, app_id, patch)
    \/ \E app_id \in AppIds : delete_app(t, app_id)
    \/ \E app_id \in EnabledTargets, enabled \in EnabledValues :
          update_app_enabled(t, app_id, enabled)
    \/ \E new_user \in SerialUserPayloads : add_user(t, new_user)
    \/ \E body \in UpdateUserBodies : update_user_data(t, body)
    \/ \E body \in AuthBodies : login(t, body)
    \/ \E body \in AuthBodies : register(t, body)

\* the saving calls, served one after another, without I/O errors
NextSaves == \E t \in {1} : SavingCall(t) \/ SaveStep(t)

SpecSaves == InitSerial /\ [][NextSaves]_vars

\* the server starts on an apps.json an earlier run left, holding app1
InitStocked == InitSerial /\ MatchesId(AppsOnDisk, "app1") # {}

\* as SpecSerialApps, from a store in which app1 is missing only once it has
\* been deleted
SpecStocked == InitStocked /\ [][NextSerialApps]_vars

\* one request of each apps route
MixedAppsCall(t) ==
    \/ get_apps(t)
    \/ get_app(t, "app1")
    \/ add_app(t, [id |-> "app1", name |-> "Foo"])
    \/ update_app(t, "app1", [name |-> "Bar"])
    \/ delete_app(t, "app2")
    \/ update_app_enabled(t, "app1", JFalse)

\* one request of each users route and of health
MixedUsersCall(t) ==
    \/ get_users(t)
    \/ get_user(t, "a@x.com")
    \/ add_user(t, [id |-> "a@x.com", apps |-> <<"app1">>])
    \/ user_data(t, [email |-> "a@x.com"])
    \/ update_user_data(t, [email |-> "a@x.com", apps |-> <<"app1">>])
    \/ login(t, [email |-> "a@x.com", password |-> "pw"])
    \/ register(t, [email |-> "a@x.com", password |-> "pw"])
    \/ health(t)

\* apps calls on one thread and users calls on another, with I/O errors
NextMixed ==
    \/ \E t \in {1} : MixedAppsCall(t) \/ SaveStep(t) \/ SaveFails(t)
    \/ \E t \in {2} : MixedUsersCall(t) \/ SaveStep(t) \/ SaveFails(t)

SpecMixed == Init /\ [][NextMixed]_vars


\* ------------------------------------------------------------- properties
\* the list without the updated_at stamps, whose values depend on the clock
Stripped(apps) == [i \in 1..Len(apps) |-> DropKey(apps[i], "updated_at")]

\* t has answered a request of the kind op
Answered(t, op) == pc[t] = "done" /\ req[t].op = op

\* the threads whose save_json has opened the file and not yet closed it
Writers(name) == {w \in Threads : pc[w] = "write" /\ FileOf(req[w].op) = name}

\* C1: when two update_app calls on the same app id are the only calls served
\* and both have returned after a save that succeeded, apps.json holds the
\* initial list with both patches applied, in one order or the other.
C1_NoLostUpdate ==
    \A t1, t2 \in Threads :
        ( /\ t1 # t2
          /\ calls = 2
          /\ Answered(t1, "update_app") /\ Answered(t2, "update_app")
          /\ req[t1].id = req[t2].id
          /\ saved[t1] = "True" /\ saved[t2] = "True" )
        => \E a, b \in {t1, t2} :
              /\ a # b
              /\ Stripped(AppsOnDisk) =
                    Stripped(UpdatedApps(UpdatedApps(InitialApps, req[a].id, req[a].json, 1),
                                         req[b].id, req[b].json, 1))

\* C2: when two update_app calls on different app ids are the only calls served
\* and both have returned after a save that succeeded, both answered 200 and
\* apps.json holds the initial list with both patches applied.
C2_DistinctUpdatesKept ==
    \A t1, t2 \in Threads :
        ( /\ calls = 2
          /\ Answered(t1, "update_app") /\ Answered(t2, "update_app")
          /\ req[t1].id # req[t2].id
          /\ saved[t1] = "True" /\ saved[t2] = "True" )
        => /\ resp[t1].code = 200 /\ resp[t2].code = 200
           /\ Stripped(AppsOnDisk) =
                 Stripped(UpdatedApps(UpdatedApps(InitialApps, req[t1].id, req[t1].json, 1),
                                      req[t2].id, req[t2].json, 1))

\* C3: a get_apps that loads apps.json while save_json calls have the file open
\* answers with the list one of them found in the file or with the list one of
\* them is writing.
C3_AtomicRead ==
    [][\A r \in Threads :
          (get_apps(r) /\ Writers(APPS_FILE) # {})
          => \E w \in Writers(APPS_FILE) :
                \/ resp'[r].body = load_json(before[w], <<>>)
                \/ resp'[r].body = data[w]]_vars

\* C4: when save_json has returned False, the file is as it was when save_json
\* was entered.
C4_FailedSaveKeepsFile ==
    \A t \in Threads :
        (pc[t] = "done" /\ saved[t] = "False") => files[FileOf(req[t].op)] = before[t]

\* C5: a get_apps or add_app call that finds apps.json present but unparsable
\* answers with an error (500) and does not go on to save.
C5_CorruptLoadFails ==
    [][\A t \in Threads :
          ( /\ get_apps(t) \/ \E new_app \in AppPayloads : add_app(t, new_app)
            /\ LoadRaises(files[APPS_FILE]) )
          => pc'[t] = "done" /\ resp'[t].code = 500]_vars

\* C6: a handler whose save_json returned False answers with an error (500).
C6_FailedSaveReported ==
    \A t \in Threads :
        (pc[t] = "done" /\ saved[t] = "False") => resp[t].code = 500

\* C7: a login for an email for which login or register has stored a non-empty
\* password, with another password, answers 401.
C7_WrongPasswordRejected ==
    \A t \in Threads :
        ( /\ Answered(t, "login")
          /\ req[t].email \in Emails
          /\ pwset[req[t].email] # NULL
          /\ req[t].password # pwset[req[t].email] )
        => resp[t].code = 401

\* C8: when two register calls for the same email are the only calls served,
\* they do not both answer 200.
C8_OneRegistration ==
    \A t1, t2 \in Threads :
        ( /\ t1 # t2
          /\ calls = 2
          /\ Answered(t1, "register") /\ Answered(t2, "register")
          /\ req[t1].email \in Emails
          /\ req[t1].email = req[t2].email )
        => ~(resp[t1].code = 200 /\ resp[t2].code = 200)

\* C9: the body user_data answers with has no other fields than apps and robots.
C9_UserDataFields ==
    \A t \in Threads :
        Answered(t, "user_data") => DOMAIN resp[t].body \subseteq {"apps", "robots"}

\* C10: the list update_app or update_app_enabled passes to save_json has, in
\* every record that had a created_at in the list it loaded, the same created_at.
C10_CreatedAtKept ==
    [][\A t \in Threads :
          ( /\ \/ \E app_id \in AppIds, patch \in AppPatches : update_app(t, app_id, patch)
               \/ \E app_id \in EnabledTargets, enabled \in EnabledValues :
                     update_app_enabled(t, app_id, enabled)
            /\ pc'[t] = "open" )
          => \A i \in 1..Len(AppsOnDisk) :
                HasKey(AppsOnDisk[i], "created_at")
                => /\ HasKey(data'[t][i], "created_at")
                   /\ data'[t][i]["created_at"] = AppsOnDisk[i]["created_at"]]_vars


\* t has answered a request of the kind op after a save_json that returned True
Stored(t, op) == Answered(t, op) /\ saved[t] = "True"

\* C11: a login that has stored a new user has stored it with empty apps and
\* robots and answered 200 with them; the same login served next answers the
\* same, does not call save_json and leaves both files as they are.
C11_LoginIdempotent ==
    [][\A t \in Threads :
          /\ Stored(t, "login")'
             => /\ DictHas(UsersOnDisk', req'[t].email)
                /\ DictValue(UsersOnDisk', req'[t].email)["apps"] = <<>>
                /\ DictValue(UsersOnDisk', req'[t].email)["robots"] = <<>>
                /\ resp'[t] = [code |-> 200,
                               body |-> [email |-> req'[t].email,
                                         apps |-> <<>>, robots |-> <<>>]]
          /\ \A body \in AuthBodies :
                (Stored(t, "login") /\ login(t, body) /\ req'[t] = req[t])
                => /\ pc'[t] = "done"
                   /\ resp'[t] = resp[t]
                   /\ files' = files]_vars

\* the second of two equal logins has been answered
C11_Witness ==
    \E t \in Threads :
        /\ calls = 2
        /\ Answered(t, "login") /\ saved[t] = "none" /\ resp[t].code = 200
        /\ DictHas(UsersOnDisk, req[t].email)
        /\ DictValue(UsersOnDisk, req[t].email) = NewUser(req[t].password, 1)


\* the apps list t's save_json found in the file
AppsBefore(t) == load_json(before[t], <<>>)

\* C12: a delete_app that has saved answers 200 and leaves no record of the id
\* in apps.json; when the list it loaded had no record of the id (as after an
\* earlier delete_app of the id), apps.json holds the list it loaded.
C12_DeleteIdempotent ==
    \A t \in Threads :
        Stored(t, "delete_app")
        => /\ resp[t].code = 200
           /\ MatchesId(AppsOnDisk, req[t].id) = {}
           /\ MatchesId(AppsBefore(t), req[t].id) = {} => AppsOnDisk = AppsBefore(t)

\* the second of two calls is a delete_app of an id of which the stored list,
\* not empty, has no record
C12_Witness ==
    \E t \in Threads :
        /\ calls = 2
        /\ Stored(t, "delete_app")
        /\ before[t].exists
        /\ AppsBefore(t) # <<>>
        /\ MatchesId(AppsBefore(t), req[t].id) = {}


\* a step in which t's save_json returns True
SaveReturns(t) == saved[t] = "none" /\ saved'[t] = "True"

\* t's save_json returns True in this step, and apps.json, which had no
\* record of the id when the save began, has one now
Restores(t, app_id) ==
    /\ SaveReturns(t)
    /\ FileOf(req[t].op) = APPS_FILE
    /\ MatchesId(AppsBefore(t), app_id) = {}
    /\ MatchesId(AppsOnDisk', app_id) # {}

\* a delete_app that has saved leaves no record of its id, and a get_app of an
\* id of which apps.json has no record answers 404 and changes no file
DeletedIsNotFound ==
    \A t \in Threads :
        /\ Stored(t, "delete_app")' => MatchesId(AppsOnDisk', req'[t].id) = {}
        /\ \A app_id \in AppIds :
              (get_app(t, app_id) /\ MatchesId(AppsOnDisk, app_id) = {})
              => resp'[t].code = 404 /\ files' = files

\* C13 as stated: a deleted id stays not found, and only the save of an add_app
\* of a record with that id gives apps.json a record of an id it lacked.
\* (Under SpecStocked apps.json lacks app1 only after a delete_app of it, and
\* no patch sets the id app2.)
C13_OnlyCreateRestores ==
    [][/\ DeletedIsNotFound
       /\ \A t \in Threads, app_id \in AppIds :
             Restores(t, app_id)
             => /\ req[t].op = "add_app"
                /\ DictGet(req[t].json, "id") = app_id]_vars

\* C13, amended: a deleted id stays not found, also when several records had
\* the id, and only the save of an add_app of a record with that id, or of an
\* update_app whose patch sets that id, gives apps.json a record of an id it
\* lacked.
C13_DeletedUntilRestored ==
    [][/\ DeletedIsNotFound
       /\ \A t \in Threads, app_id \in AppIds :
             Restores(t, app_id)
             => /\ req[t].op \in {"add_app", "update_app"}
                /\ DictGet(req[t].json, "id") = app_id]_vars

\* a delete_app of an id that several records had has saved
C13_Witness ==
    \E t \in Threads :
        /\ Stored(t, "delete_app")
        /\ Cardinality(MatchesId(AppsBefore(t), req[t].id)) >= 2
        /\ MatchesId(AppsOnDisk, req[t].id) = {}


\* the users dict t's save_json found in the file
UsersBefore(t) == load_json(before[t], <<>>)

\* the key add_user stores the payload under
KeyOf(new_user) == PyOr(DictGet(new_user, "id"), DictGet(new_user, "email"))

\* C14: an add_user that has saved has stored, under the payload's id (or
\* email), a record with the payload's fields and created_at and no other
\* field, whatever record that key had before.
C14_UpsertReplaces ==
    \A t \in Threads :
        Stored(t, "add_user")
        => /\ DictHas(UsersOnDisk, KeyOf(req[t].json))
           /\ LET user == DictValue(UsersOnDisk, KeyOf(req[t].json))
              IN  /\ DOMAIN user = (DOMAIN req[t].json) \cup {"created_at"}
                  /\ \A k \in (DOMAIN req[t].json) \ {"created_at"} :
                        user[k] = req[t].json[k]

\* the second add_user of a key has saved a payload that lacks a field of the
\* first one's
C14_Witness ==
    \E t \in Threads :
        /\ Stored(t, "add_user")
        /\ DictHas(UsersBefore(t), KeyOf(req[t].json))
        /\ LET old == DictValue(UsersBefore(t), KeyOf(req[t].json))
           IN  /\ "id" \in DOMAIN old
               /\ (DOMAIN old) \ ((DOMAIN req[t].json) \cup {"created_at"}) # {}


\* C15: a user_data call whose body has no email, or an email that is not a
\* key of the users dict load_json returns (the empty dict when users.json is
\* missing or does not parse), answers 200 with {apps: [], robots: []} and
\* changes no file.
C15_UserDataTolerant ==
    [][\A t \in Threads, body \in UserDataBodies :
          (/\ user_data(t, body)
           /\ \/ PyBool(DictGet(body, "email")) = JFalse
              \/ ~DictHas(UsersOnDisk, DictGet(body, "email")))
          => /\ resp'[t] = [code |-> 200, body |-> EmptyUserData]
             /\ files' = files]_vars

\* user_data has answered for an unknown email while users.json does not parse
C15_Witness ==
    \E t \in Threads :
        /\ Answered(t, "user_data")
        /\ req[t].email = "unknown@x.com"
        /\ LoadRaises(files[USERS_FILE])
        /\ resp[t] = [code |-> 200, body |-> EmptyUserData]


SameButAt(old, new, i) ==
    /\ Len(new) = Len(old)
    /\ \A j \in 1..Len(old) : j # i => new[j] = old[j]

\* the list update_app of t has saved, against the list it found: the first
\* record of the id holds the patch's keys with the patch's values, its other
\* keys with their old values, and updated_at; the other records are the same
UpdateFrame(t) ==
    LET old == AppsBefore(t)
        new == AppsOnDisk
        patch == req[t].json
        hits == MatchesId(old, req[t].id)
    IN  \E i \in hits :
           /\ \A j \in hits : i <= j
           /\ SameButAt(old, new, i)
           /\ DOMAIN new[i] = (DOMAIN old[i]) \cup (DOMAIN patch) \cup {"updated_at"}
           /\ new[i]["updated_at"] \in 1..MaxClock
           /\ \A k \in (DOMAIN patch) \ {"updated_at"} : new[i][k] = patch[k]
           /\ \A k \in (DOMAIN old[i]) \ ((DOMAIN patch) \cup {"updated_at"}) :
                 new[i][k] = old[i][k]

\* C17: an update_app that has saved has replaced the first record of the id
\* by the merge of the patch over it, with updated_at, and nothing else; an
\* update_app of an id no record has answers 404 and changes no file.
C17_UpdateFrame ==
    [][\A t \in Threads :
          /\ Stored(t, "update_app")' => UpdateFrame(t)'
          /\ \A app_id \in AppIds, patch \in SerialPatches :
                (update_app(t, app_id, patch) /\ MatchesId(AppsOnDisk, app_id) = {})
                => resp'[t].code = 404 /\ files' = files]_vars

\* an update_app of an id that two records have has saved
C17_Witness ==
    \E t \in Threads :
        /\ Stored(t, "update_app")
        /\ Cardinality(MatchesId(AppsBefore(t), req[t].id)) = 2
        /\ AppsOnDisk[1] # AppsBefore(t)[1]
        /\ AppsOnDisk[2] = AppsBefore(t)[2]


\* the list update_app_enabled of t has saved, against the list it found: the
\* first record whose id or name is the target has enabled set to a boolean
\* and its other keys as they were; the other records are the same
EnabledFrame(t) ==
    LET old == AppsBefore(t)
        new == AppsOnDisk
        hits == MatchesIdOrName(old, req[t].id)
    IN  \E i \in hits :
           /\ \A j \in hits : i <= j
           /\ SameButAt(old, new, i)
           /\ DOMAIN new[i] = (DOMAIN old[i]) \cup {"enabled"}
           /\ new[i]["enabled"] \in {JTrue, JFalse}
           /\ new[i]["enabled"] = PyBool(req[t].enabled)
           /\ \A k \in (DOMAIN old[i]) \ {"enabled"} : new[i][k] = old[i][k]

\* C18: an update_app_enabled that has saved has set enabled on the first
\* record whose id or name is the target, and nothing else; a call with a
\* target and a value goes on to save and answer 200 when a record matches,
\* and answers 404 and changes no file when none does.
C18_EnabledFrame ==
    [][\A t \in Threads :
          /\ Stored(t, "update_app_enabled")' => EnabledFrame(t)'
          /\ \A app_id \in SerialEnabledTargets \ {NULL}, enabled \in SerialEnabledValues :
                update_app_enabled(t, app_id, enabled)
                => IF MatchesIdOrName(AppsOnDisk, app_id) # {}
                   THEN pc'[t] = "open" /\ resp'[t].code = 200
                   ELSE resp'[t].code = 404 /\ files' = files]_vars

\* an update_app_enabled has saved whose target is the id of the first record
\* and the name of the second
C18_Witness ==
    \E t \in Threads :
        /\ Stored(t, "update_app_enabled")
        /\ MatchesIdOrName(AppsBefore(t), req[t].id) = {1, 2}
        /\ MatchesId(AppsBefore(t), req[t].id) = {1}
        /\ AppsOnDisk[1] = SetKey(AppsBefore(t)[1], "enabled", JFalse)
        /\ AppsOnDisk[2] = AppsBefore(t)[2]


\* the operations that change the collection kept in the file
Mutators(name) ==
    IF name = APPS_FILE
    THEN {"add_app", "update_app", "delete_app", "update_app_enabled"}
    ELSE {"add_user", "update_user_data", "login", "register"}

\* the step is one of thread t: a request taken or a step of its save_json
Acts(t) == pc'[t] # pc[t] \/ off'[t] # off[t] \/ req'[t] # req[t]

\* C19: a file changes only in a step of a thread, and a step of a thread
\* changes apps.json only when its request is add_app, update_app, delete_app
\* or update_app_enabled, and users.json only when it is add_user,
\* update_user_data, login or register, whatever the other thread is doing;
\* so get_apps, get_app, get_users, get_user, user_data and health change
\* neither.
C19_Independent ==
    [][/\ files' # files => \E t \in Threads : Acts(t)
       /\ \A t \in Threads, name \in FileNames :
             (Acts(t) /\ files'[name] # files[name])
             => req'[t].op \in Mutators(name)]_vars

\* an apps operation has saved its list while a users operation is writing
\* users.json
C19_Witness ==
    \E t1, t2 \in Threads :
        /\ saved[t1] = "True" /\ pc[t1] = "done"
        /\ req[t1].op \in Mutators(APPS_FILE)
        /\ AppsOnDisk = data[t1]
        /\ AppsOnDisk # InitialApps
        /\ pc[t2] = "write" /\ off[t2] > 0
        /\ req[t2].op \in Mutators(USERS_FILE)

==========================================================================
